---- MODULE Spec2Model ----
(***************************************************************************)
(* storyblok-cached-api: a disk cache in front of a content client.       *)
(* The model follows src/src/index.ts: generateCacheKey, readFromCache,   *)
(* writeToCache, clearCache and the get override installed by             *)
(* useCachedStoryblokApi, over a small file system.                        *)
(***************************************************************************)
EXTENDS Integers, Sequences, FiniteSets, TLC

(***************************************************************************)
(* JavaScript values.  A value is a record [t, v]: t is the type tag and   *)
(* v the content.  An object is a sequence of <<name, value>> pairs in     *)
(* insertion order, an array a sequence of values.                         *)
(***************************************************************************)
Undefined == [t |-> "undef", v |-> "undef"]
Null == [t |-> "null", v |-> "null"]
Bool(b) == [t |-> "bool", v |-> b]
Num(n) == [t |-> "num", v |-> n]
Str(s) == [t |-> "str", v |-> s]
Arr(s) == [t |-> "arr", v |-> s]
Obj(s) == [t |-> "obj", v |-> s]

\* if (x): JavaScript truthiness.
Truthy(x) ==
  CASE x.t = "undef" -> FALSE
    [] x.t = "null" -> FALSE
    [] x.t = "bool" -> x.v
    [] x.t = "num" -> x.v # 0
    [] x.t = "str" -> x.v # ""
    [] OTHER -> TRUE

\* Object.keys(o): own property names in insertion order.
ObjectKeys(o) == [i \in 1..Len(o.v) |-> o.v[i][1]]

HasOwn(o, k) == \E i \in 1..Len(o.v) : o.v[i][1] = k

GetProp(o, k) == o.v[CHOOSE i \in 1..Len(o.v) : o.v[i][1] = k][2]

\* Every property name of the model, in the order Array.prototype.sort gives
\* (UTF-16 code units).
NameOrder == <<"cv", "data", "f", "name", "story", "value", "version", "x">>

InSeq(s, x) == \E i \in 1..Len(s) : s[i] = x

\* The names left in insertion order: the variant C11 is sensitive to.
InsertionOrder(keys) == keys

\* keys.sort()
SortNames(keys) == SelectSeq(NameOrder, LAMBDA k : InSeq(keys, k))

(***************************************************************************)
(* JSON text.  A text is a sequence of lexemes: punctuation, literals,     *)
(* quoted strings, numbers, and the white space JSON.stringify puts in     *)
(* when it is given a gap.                                                 *)
(***************************************************************************)
NoReplacer == <<"*">>

Newline == "\n"

RECURSIVE Repeat(_, _)
Repeat(x, n) == IF n = 0 THEN <<>> ELSE <<x>> \o Repeat(x, n - 1)

\* The line break and indentation before an item at nesting level `level`;
\* nothing when the gap is empty.
Break(gap, level) == IF gap = "" THEN <<>> ELSE <<Newline>> \o Repeat(gap, level)

Colon(gap) == IF gap = "" THEN <<":">> ELSE <<":", " ">>

Comma(i) == IF i > 1 THEN <<",">> ELSE <<>>

RECURSIVE SerializeValue(_, _, _, _)
RECURSIVE SerializeItems(_, _, _, _, _)
RECURSIVE SerializeProps(_, _, _, _, _, _)

\* The names SerializeJSONObject walks: the replacer's list when one is given
\* (at every nesting level), the object's own names otherwise.
PropertyList(o, replacer) ==
  IF replacer = NoReplacer THEN ObjectKeys(o) ELSE replacer

\* The properties of o that are written: those in the list that o owns and
\* whose value is not undefined.
Written(o, names) ==
  SelectSeq(names, LAMBDA k : HasOwn(o, k) /\ GetProp(o, k).t # "undef")

\* The elements of an array from the i-th on; undefined is written as null.
SerializeItems(items, i, replacer, gap, level) ==
  IF i > Len(items) THEN <<>>
  ELSE Comma(i) \o Break(gap, level)
       \o SerializeValue(IF items[i].t = "undef" THEN Null ELSE items[i],
                         replacer, gap, level)
       \o SerializeItems(items, i + 1, replacer, gap, level)

\* The properties `names` of o from the i-th on.
SerializeProps(o, names, i, replacer, gap, level) ==
  IF i > Len(names) THEN <<>>
  ELSE Comma(i) \o Break(gap, level)
       \o <<ToString(names[i])>> \o Colon(gap)
       \o SerializeValue(GetProp(o, names[i]), replacer, gap, level)
       \o SerializeProps(o, names, i + 1, replacer, gap, level)

SerializeObject(o, names, replacer, gap, level) ==
  IF Len(names) = 0 THEN <<"{", "}">>
  ELSE <<"{">> \o SerializeProps(o, names, 1, replacer, gap, level + 1)
       \o Break(gap, level) \o <<"}">>

SerializeValue(x, replacer, gap, level) ==
  CASE x.t = "null" -> <<"null">>
    [] x.t = "bool" -> IF x.v THEN <<"true">> ELSE <<"false">>
    [] x.t = "num" -> <<ToString(x.v)>>
    [] x.t = "str" -> <<ToString(x.v)>>
    [] x.t = "arr" ->
         IF Len(x.v) = 0 THEN <<"[", "]">>
         ELSE <<"[">> \o SerializeItems(x.v, 1, replacer, gap, level + 1)
              \o Break(gap, level) \o <<"]">>
    [] x.t = "obj" ->
         SerializeObject(x, Written(x, PropertyList(x, replacer)), replacer, gap, level)

\* A JSON.stringify that takes the top-level names of an object as its
\* replacer, as the key derivation does: the variant C9 is sensitive to.
JSONstringifyOwnNames(x, replacer, gap) ==
  SerializeValue(x, IF x.t = "obj" THEN SortNames(ObjectKeys(x)) ELSE replacer, gap, 0)

\* JSON.stringify(value, replacer, gap) for a defined value.
JSONstringify(x, replacer, gap) == SerializeValue(x, replacer, gap, 0)

\* The strings and numbers that occur in the model's values: what the
\* tokenizer of JSON.parse recognises as a string or a number lexeme.
Strings ==
  {NameOrder[i] : i \in 1..Len(NameOrder)}
    \cup {"", "draft", "published", "Home", "About", "Old", "New"}

Numbers == 0..3

IsWhite(tok) == tok \in {Newline, " ", "  "}

IsStringLexeme(tok) == \E s \in Strings : ToString(s) = tok

IsNumberLexeme(tok) == \E n \in Numbers : ToString(n) = tok

StringOf(tok) == CHOOSE s \in Strings : ToString(s) = tok

NumberOf(tok) == CHOOSE n \in Numbers : ToString(n) = tok

ParseFail == [ok |-> FALSE, val |-> Undefined, next |-> 0]

Parsed(x, next) == [ok |-> TRUE, val |-> x, next |-> next]

RECURSIVE ParseValue(_, _)
RECURSIVE ParseElements(_, _, _)
RECURSIVE ParseMembers(_, _, _)

\* After the element r of an array: "]" ends it, "," continues it.
ElementsAfter(toks, acc, r) ==
  IF ~r.ok \/ r.next > Len(toks) THEN ParseFail
  ELSE IF toks[r.next] = "]" THEN Parsed(Arr(Append(acc, r.val)), r.next + 1)
  ELSE IF toks[r.next] = "," THEN ParseElements(toks, r.next + 1, Append(acc, r.val))
  ELSE ParseFail

\* The elements of an array from token i on, acc being those read so far.
ParseElements(toks, i, acc) == ElementsAfter(toks, acc, ParseValue(toks, i))

\* acc with the member `name` set to x: a repeated name keeps its place and
\* takes the later value.
PutMember(acc, name, x) ==
  IF \E j \in 1..Len(acc) : acc[j][1] = name
  THEN [j \in 1..Len(acc) |-> IF acc[j][1] = name THEN <<name, x>> ELSE acc[j]]
  ELSE Append(acc, <<name, x>>)

\* After the member name : r of an object: "}" ends it, "," continues it.
MembersAfter(toks, acc, name, r) ==
  IF ~r.ok \/ r.next > Len(toks) THEN ParseFail
  ELSE IF toks[r.next] = "}"
       THEN Parsed(Obj(PutMember(acc, name, r.val)), r.next + 1)
  ELSE IF toks[r.next] = ","
       THEN ParseMembers(toks, r.next + 1, PutMember(acc, name, r.val))
  ELSE ParseFail

\* The members of an object from token i on: string ":" value.
ParseMembers(toks, i, acc) ==
  IF i + 1 > Len(toks) \/ ~IsStringLexeme(toks[i]) \/ toks[i + 1] # ":" THEN ParseFail
  ELSE MembersAfter(toks, acc, StringOf(toks[i]), ParseValue(toks, i + 2))

ParseValue(toks, i) ==
  IF i > Len(toks) THEN ParseFail
  ELSE CASE toks[i] = "null" -> Parsed(Null, i + 1)
         [] toks[i] = "true" -> Parsed(Bool(TRUE), i + 1)
         [] toks[i] = "false" -> Parsed(Bool(FALSE), i + 1)
         [] IsNumberLexeme(toks[i]) -> Parsed(Num(NumberOf(toks[i])), i + 1)
         [] IsStringLexeme(toks[i]) -> Parsed(Str(StringOf(toks[i])), i + 1)
         [] toks[i] = "[" ->
              IF i + 1 <= Len(toks) /\ toks[i + 1] = "]"
              THEN Parsed(Arr(<<>>), i + 2)
              ELSE ParseElements(toks, i + 1, <<>>)
         [] toks[i] = "{" ->
              IF i + 1 <= Len(toks) /\ toks[i + 1] = "}"
              THEN Parsed(Obj(<<>>), i + 2)
              ELSE ParseMembers(toks, i + 1, <<>>)
         [] OTHER -> ParseFail

\* The text is one value and nothing after it.
ParseWhole(toks, r) ==
  IF r.ok /\ r.next = Len(toks) + 1 THEN [ok |-> TRUE, val |-> r.val]
  ELSE [ok |-> FALSE, val |-> Undefined]

ParseTokens(toks) == ParseWhole(toks, ParseValue(toks, 1))

\* JSON.parse(text): [ok |-> FALSE] stands for the SyntaxError it throws.
JSONparse(text) == ParseTokens(SelectSeq(text, LAMBDA tok : ~IsWhite(tok)))

(***************************************************************************)
(* generateCacheKey.  A path and a key are sequences of characters.        *)
(***************************************************************************)
Lower == {"a", "b", "c", "d", "e", "f", "g", "h", "i", "j", "k", "l", "m",
          "n", "o", "p", "q", "r", "s", "t", "u", "v", "w", "x", "y", "z"}

Upper == {"A", "B", "C", "D", "E", "F", "G", "H", "I", "J", "K", "L", "M",
          "N", "O", "P", "Q", "R", "S", "T", "U", "V", "W", "X", "Y", "Z"}

Digit == {"0", "1", "2", "3", "4", "5", "6", "7", "8", "9"}

\* [a-zA-Z0-9_-]
SafeChars == Lower \cup Upper \cup Digit \cup {"_", "-"}

HexDigits == <<"0", "1", "2", "3", "4", "5", "6", "7",
               "8", "9", "a", "b", "c", "d", "e", "f">>

\* The units a digest input is made of, each with its place as its code:
\* the characters of the model's paths and the lexemes of its parameter texts.
CodeUnits ==
  <<"/", "?", ".", "-", "_", "a", "b", "c", "h", "s", ":", ",", "{", "}", "[", "]",
    "null", "true", "false", "0", "1", "2", "3",
    "\"\"", "\"cv\"", "\"data\"", "\"f\"", "\"name\"", "\"story\"", "\"value\"",
    "\"version\"", "\"x\"", "\"draft\"", "\"published\"", "\"Home\"", "\"About\"",
    "\"Old\"", "\"New\"">>

CodeOf(c) == CHOOSE i \in 1..Len(CodeUnits) : CodeUnits[i] = c

Codes(input) == [i \in 1..Len(input) |-> CodeOf(input[i])]

HashLength == 16

\* One 16-bit lane of the digest: a multiplicative fold of the codes.
RECURSIVE Lane(_, _, _, _)
Lane(codes, i, mult, h) ==
  IF i > Len(codes) THEN h
  ELSE Lane(codes, i + 1, mult, (h * mult + codes[i]) % 65536)

Hex4(h) ==
  <<HexDigits[(h \div 4096) + 1], HexDigits[((h \div 256) % 16) + 1],
    HexDigits[((h \div 16) % 16) + 1], HexDigits[(h % 16) + 1]>>

\* .digest("hex"): SHA-256 itself is not computed.  The digest here is a
\* stand-in that is a function of the whole input and yields lowercase hex
\* digits, four lanes of four digits each.
HexDigest(codes) ==
  Hex4(Lane(codes, 1, 31, 7)) \o Hex4(Lane(codes, 1, 37, 11))
    \o Hex4(Lane(codes, 1, 41, 13)) \o Hex4(Lane(codes, 1, 43, 17))

\* createHash("sha256").update(combined).digest("hex").substring(0, 16)
HashPrefix(combined) == SubSeq(HexDigest(Codes(combined)), 1, HashLength)

\* A path left as it is: the variant C14 is sensitive to.
NormalizeNone(path) == path

\* path.replace(/^\//, "")
NormalizePath(path) ==
  IF Len(path) > 0 /\ path[1] = "/" THEN Tail(path) ELSE path

\* .replace(/\//g, "_")
SlashToUnderscore(path) ==
  [i \in 1..Len(path) |-> IF path[i] = "/" THEN "_" ELSE path[i]]

\* Reserved characters left in the prefix: the variant C15 is sensitive to.
UnsafeKept(path) == path

\* .replace(/[^a-zA-Z0-9_-]/g, "-")
UnsafeToHyphen(path) ==
  [i \in 1..Len(path) |-> IF path[i] \in SafeChars THEN path[i] ELSE "-"]

SanitizePath(path) == UnsafeToHyphen(SlashToUnderscore(path))

\* params ? JSON.stringify(params, Object.keys(params).sort()) : ""
ParamsStr(params) ==
  IF Truthy(params)
  THEN JSONstringify(params, SortNames(ObjectKeys(params)), "")
  ELSE <<>>

JsonSuffix == <<".", "j", "s", "o", "n">>

\* `${normalizedPath}::${paramsStr}`
Combined(normalizedPath, paramsStr) == normalizedPath \o <<":", ":">> \o paramsStr

\* `${sanitizedPath}__${hash}.json`
KeyName(sanitizedPath, hash) == sanitizedPath \o <<"_", "_">> \o hash \o JsonSuffix

generateCacheKey(path, params) ==
  KeyName(SanitizePath(NormalizePath(path)),
          HashPrefix(Combined(NormalizePath(path), ParamsStr(params))))

(***************************************************************************)
(* The file system under process.cwd().  fs.dirs holds the directories     *)
(* that exist, fs.files[d] maps the names directly inside d to their       *)
(* entries; an entry of kind "file" carries its text.                      *)
(***************************************************************************)
CACHE_DIR == ".sb-dev-cache"

DirNames == {CACHE_DIR, "my-cache"}

NoFiles == <<>>

EmptyFs == [dirs |-> {}, files |-> [d \in DirNames |-> NoFiles]]

File(text) == [kind |-> "file", text |-> text]

\* A subdirectory of the cache directory, as an entry of it.
SubDir == [kind |-> "dir", text |-> <<>>]

\* The entry `name` of `dir` is a directory.
IsSubDir(files, dir, name) ==
  name \in DOMAIN files.files[dir] /\ files.files[dir][name].kind = "dir"

\* existsSync(join(process.cwd(), dir))
DirExists(files, dir) == dir \in files.dirs

\* existsSync(join(process.cwd(), dir, name))
FileExists(files, dir, name) == dir \in files.dirs /\ name \in DOMAIN files.files[dir]

\* readdirSync(dir), as a set of names
ReadDir(files, dir) == DOMAIN files.files[dir]

\* file.endsWith(suffix)
EndsWith(name, suffix) ==
  /\ Len(name) >= Len(suffix)
  /\ SubSeq(name, Len(name) - Len(suffix) + 1, Len(name)) = suffix

\* mkdirSync(dir, { recursive: true })
MakeDir(files, dir) == [files EXCEPT !.dirs = @ \cup {dir}]

\* A write that leaves `name` as the only entry of `dir`: the variant C10 is
\* sensitive to.
PutOnly(files, dir, name, entry) ==
  [files EXCEPT !.files[dir] = [n \in {name} |-> entry]]

\* The file system with `name` in `dir` holding `entry`.
PutEntry(files, dir, name, entry) ==
  [files EXCEPT !.files[dir] =
     [n \in (DOMAIN @) \cup {name} |-> IF n = name THEN entry ELSE @[n]]]

\* The file system without the entries `names` of `dir`.
RemoveEntries(files, dir, names) ==
  [files EXCEPT !.files[dir] = [n \in (DOMAIN @) \ names |-> @[n]]]

\* Faults the file system can answer a call with: none, mkdirSync throwing
\* (EACCES, ENOTDIR), writeFileSync throwing when it opens the file (EACCES).
NoFault == "none"
MkdirFault == "mkdir"
WriteFault == "write"

\* The log lines of the module.
LogHit == "[Cache] Loaded from cache"
LogQuery == "[Cache] Querying API"
LogSaved == "[Cache] Saved to cache"
WarnRead == "[Cache] Error reading cache"
WarnWrite == "[Cache] Error writing cache"

\* A line logged whatever verbose says: the variant C19 is sensitive to.
WhenAlways(cond, line) == <<line>>

\* if (verbose) { console.log(line) }
When(cond, line) == IF cond THEN <<line>> ELSE <<>>

\* readFileSync(cachePath, "utf-8") and JSON.parse(content); not ok when
\* either throws.
ReadAndParse(entry) ==
  IF entry.kind = "file" THEN JSONparse(entry.text)
  ELSE [ok |-> FALSE, val |-> Undefined]

\* The try block of readFromCache and its catch.
ReadOutcome(parsed, verbose) ==
  IF parsed.ok
  THEN [ret |-> parsed.val, logs |-> <<>>, io |-> <<"existsSync", "readFileSync">>]
  ELSE [ret |-> Null, logs |-> When(verbose, WarnRead),
        io |-> <<"existsSync", "readFileSync">>]

\* A read that answers a missing file with an empty object: the variant C17
\* is sensitive to.
readFromCacheOrEmpty(files, cacheKey, cacheDir, verbose) ==
  IF ~FileExists(files, cacheDir, cacheKey)
  THEN [ret |-> Obj(<<>>), logs |-> <<>>, io |-> <<"existsSync">>]
  ELSE ReadOutcome(ReadAndParse(files.files[cacheDir][cacheKey]), verbose)

\* readFromCache(cacheKey, cacheDir, verbose): ret is the value returned, null
\* when the file is missing or its text does not parse.
readFromCache(files, cacheKey, cacheDir, verbose) ==
  IF ~FileExists(files, cacheDir, cacheKey)
  THEN [ret |-> Null, logs |-> <<>>, io |-> <<"existsSync">>]
  ELSE ReadOutcome(ReadAndParse(files.files[cacheDir][cacheKey]), verbose)

\* A write that keeps a file that is already there: the variant C20 is
\* sensitive to.
WriteFileIfAbsent(made, io, cacheKey, data, cacheDir, verbose, fault) ==
  [fs |-> IF fault = WriteFault \/ data.t = "undef"
             \/ FileExists(made, cacheDir, cacheKey)
          THEN made
          ELSE PutEntry(made, cacheDir, cacheKey,
                        File(JSONstringify(data, NoReplacer, "  "))),
   threw |-> FALSE, err |-> "", wrote |-> fault # WriteFault /\ data.t # "undef",
   logs |-> <<>>, io |-> io, fault |-> fault]

\* The try block of writeToCache and its catch, on the file system `made`
\* in which the directory exists.  JSON.stringify(undefined) is undefined,
\* which writeFileSync refuses with a TypeError; a path that is a directory
\* it refuses with EISDIR.
WriteFile(made, io, cacheKey, data, cacheDir, verbose, fault) ==
  IF fault = WriteFault \/ data.t = "undef" \/ IsSubDir(made, cacheDir, cacheKey)
  THEN [fs |-> made, threw |-> FALSE, err |-> "", wrote |-> FALSE,
        logs |-> When(verbose, WarnWrite), io |-> io,
        fault |-> IF fault = WriteFault THEN WriteFault ELSE NoFault]
  ELSE [fs |-> PutEntry(made, cacheDir, cacheKey,
                        File(JSONstringify(data, NoReplacer, "  "))),
        threw |-> FALSE, err |-> "", wrote |-> TRUE,
        logs |-> When(verbose, LogSaved), io |-> io, fault |-> NoFault]

\* writeToCache(cacheKey, data, cacheDir, verbose) on a file system that
\* answers with `fault`: the file system after it, whether it threw, its
\* logs.  mkdirSync is called outside the try block.
writeToCache(files, cacheKey, data, cacheDir, verbose, fault) ==
  IF DirExists(files, cacheDir)
  THEN WriteFile(files, <<"existsSync", "writeFileSync">>,
                 cacheKey, data, cacheDir, verbose, fault)
  ELSE IF fault = MkdirFault
  THEN [fs |-> files, threw |-> TRUE, err |-> "EACCES: mkdir", wrote |-> FALSE,
        logs |-> <<>>, io |-> <<"existsSync", "mkdirSync">>, fault |-> MkdirFault]
  ELSE WriteFile(MakeDir(files, cacheDir), <<"existsSync", "mkdirSync", "writeFileSync">>,
                 cacheKey, data, cacheDir, verbose, fault)

\* The names among `json` that unlinkSync throws on: it removes files, not
\* directories (EISDIR, EPERM).
Undeletable(files, cacheDir, json) == {file \in json : IsSubDir(files, cacheDir, file)}

\* files.forEach(...) and return files.length; `done` is what was unlinked
\* before a name unlinkSync throws on, if there is one: the error leaves
\* forEach and clearCache, which has no try block.
UnlinkJson(files, cacheDir, listed, json, done) ==
  IF Undeletable(files, cacheDir, json) = {}
  THEN [fs |-> RemoveEntries(files, cacheDir, json), ret |-> Cardinality(listed),
        threw |-> FALSE, err |-> "",
        io |-> <<"existsSync", "readdirSync">> \o Repeat("unlinkSync", Cardinality(json))]
  ELSE [fs |-> RemoveEntries(files, cacheDir, done \cap json), ret |-> 0,
        threw |-> TRUE, err |-> "EISDIR: unlink",
        io |-> <<"existsSync", "readdirSync">>
                 \o Repeat("unlinkSync", Cardinality(done \cap json) + 1)]

\* A clearCache that unlinks every name it listed: the variant C8 is
\* sensitive to.
AllAmong(listed) == listed

\* files.filter((file) => file.endsWith(".json"))
JsonAmong(listed) == {file \in listed : EndsWith(file, JsonSuffix)}

\* The sets of names forEach can have unlinked when it comes to a name
\* unlinkSync throws on: readdirSync lists in the order the file system
\* chooses, so any of the files may come before it.  With no such name there
\* is one outcome, every name unlinked.
UnlinkedFirst(files, cacheDir) ==
  IF ~DirExists(files, cacheDir)
       \/ Undeletable(files, cacheDir, JsonAmong(ReadDir(files, cacheDir))) = {}
  THEN {{}}
  ELSE SUBSET (JsonAmong(ReadDir(files, cacheDir))
                 \ Undeletable(files, cacheDir, JsonAmong(ReadDir(files, cacheDir))))

\* A clearCache that makes the directory it does not find: the variant C24
\* is sensitive to.
clearCacheMakingDir(files, cacheDir, done) ==
  IF ~DirExists(files, cacheDir)
  THEN [fs |-> MakeDir(files, cacheDir), ret |-> 0, threw |-> FALSE, err |-> "",
        io |-> <<"existsSync", "mkdirSync">>]
  ELSE UnlinkJson(files, cacheDir, ReadDir(files, cacheDir),
                  JsonAmong(ReadDir(files, cacheDir)), done)

\* clearCache(cacheDir): the file system after it and the number returned,
\* or the error thrown.
clearCache(files, cacheDir, done) ==
  IF ~DirExists(files, cacheDir)
  THEN [fs |-> files, ret |-> 0, threw |-> FALSE, err |-> "", io |-> <<"existsSync">>]
  ELSE UnlinkJson(files, cacheDir, ReadDir(files, cacheDir),
                  JsonAmong(ReadDir(files, cacheDir)), done)
(***************************************************************************)
(* State.                                                                  *)
(*   fs      the file system                                               *)
(*   nodeEnv process.env["NODE_ENV"]                                       *)
(*   apis    for each client object the factory hands out, the get         *)
(*           overrides installed on it, innermost first; each is the       *)
(*           configuration its closure captured                            *)
(*   calls   the get calls suspended at `await originalGet(slug, params)`  *)
(*   last    what the most recent operation was given, did and returned    *)
(***************************************************************************)
VARIABLES fs, nodeEnv, apis, calls, last

vars == <<fs, nodeEnv, apis, calls, last>>

ApiObjects == {"api1", "api2"}

MaxCalls == 1

CallIds == 1..MaxCalls

Idle == [st |-> "idle", api |-> "", depth |-> 0, slug |-> <<>>, params |-> Undefined]

Pending(o, depth, slug, params) ==
  [st |-> "pending", api |-> o, depth |-> depth, slug |-> slug, params |-> params]

NoArgs == [none |-> TRUE]

NoNet == [threw |-> FALSE, err |-> "", val |-> Undefined]

\* The record of an operation: its name and arguments, the value returned or the
\* error thrown, the arguments of the calls it made to the network client
\* (fetched) and what the client answered (net), its calls to the file system
\* (io), the lines it logged, the fault the file system struck it with, and
\* the file system it started from.
Obs(op, args, ret, threw, err, fetched, net, io, logs, fault) ==
  [op |-> op, args |-> args, ret |-> ret, threw |-> threw, err |-> err,
   fetched |-> fetched, net |-> net, io |-> io, logs |-> logs, fault |-> fault,
   before |-> fs]

Init ==
  /\ fs = EmptyFs
  /\ nodeEnv = "production"
  /\ apis = [o \in ApiObjects |-> <<>>]
  /\ calls = [c \in CallIds |-> Idle]
  /\ last = [Obs("init", NoArgs, Undefined, FALSE, "", <<>>, NoNet, <<>>, <<>>, NoFault)
               EXCEPT !.before = EmptyFs]

\* x = default in a destructuring pattern: the default when x is undefined.
OrDefault(x, default) == IF x.t = "undef" THEN default ELSE x.v

\* The destructuring of options in useCachedStoryblokApi.
ResolveOptions(options, env) ==
  [enableCache |-> OrDefault(options.enableCache, env = "development"),
   cacheDir |-> OrDefault(options.cacheDir, CACHE_DIR),
   verbose |-> OrDefault(options.verbose, TRUE)]

\* useCachedStoryblokApi(options), the factory useStoryblokApi() handing out
\* the object o: the new get closes over the resolved options and over the get
\* that o had.
useCachedStoryblokApi(o, options) ==
  /\ apis' = [apis EXCEPT ![o] = Append(@, ResolveOptions(options, nodeEnv))]
  /\ last' = Obs("useCachedStoryblokApi", [api |-> o, options |-> options],
                 Undefined, FALSE, "", <<>>, NoNet, <<>>, <<>>, NoFault)
  /\ UNCHANGED <<fs, nodeEnv, calls>>

\* An override that looks in the cache whatever enableCache says: the variant
\* C3 is sensitive to.
CacheLookupAlways(cfg, files, cacheKey) ==
  readFromCache(files, cacheKey, cfg.cacheDir, cfg.verbose)

\* An override that looks at NODE_ENV when get is called instead of using the
\* value resolved at construction: the variant C18 is sensitive to.
CacheLookupByMode(cfg, files, cacheKey) ==
  IF nodeEnv = "development"
  THEN readFromCache(files, cacheKey, cfg.cacheDir, cfg.verbose)
  ELSE [ret |-> Null, logs |-> <<>>, io |-> <<>>]

\* if (enableCache) { const cached = readFromCache(...) }
CacheLookup(cfg, files, cacheKey) ==
  IF cfg.enableCache
  THEN readFromCache(files, cacheKey, cfg.cacheDir, cfg.verbose)
  ELSE [ret |-> Null, logs |-> <<>>, io |-> <<>>]

\* What the override logged and asked of the file system, put before what
\* the originalGet it called did.
After(logs, io, below) == [below EXCEPT !.logs = logs \o @, !.io = io \o @]

RECURSIVE Descend(_, _, _, _, _)

\* The override at `level` with its lookup done: it returns the cached value
\* if that is truthy, and calls originalGet otherwise.
DescendAt(chain, level, files, slug, params, cfg, cached) ==
  IF cfg.enableCache /\ Truthy(cached.ret)
  THEN [hit |-> TRUE, level |-> level, val |-> cached.ret,
        logs |-> cached.logs \o When(cfg.verbose, LogHit), io |-> cached.io]
  ELSE After(cached.logs \o When(cfg.verbose, LogQuery), cached.io,
             Descend(chain, level - 1, files, slug, params))

\* The part of get before `await`, run for the override at `level` of `chain`
\* and, through originalGet, for the ones below it: where the call stops (a
\* level that found its entry, or level 0, the network client) and what was
\* logged and asked of the file system on the way.
Descend(chain, level, files, slug, params) ==
  IF level = 0
  THEN [hit |-> FALSE, level |-> 0, val |-> Undefined, logs |-> <<>>, io |-> <<>>]
  ELSE DescendAt(chain, level, files, slug, params, chain[level],
                 CacheLookup(chain[level], files, generateCacheKey(slug, params)))

\* What get hands on after writeToCache answered w: the value, or the error
\* writeToCache threw.
Saved(out, w) ==
  [fs |-> w.fs, threw |-> w.threw, err |-> w.err,
   val |-> IF w.threw THEN Undefined ELSE out.val,
   logs |-> out.logs \o w.logs, io |-> out.io \o w.io,
   fault |-> IF w.fault # NoFault THEN w.fault ELSE out.fault]

\* if (enableCache) { writeToCache(cacheKey, result, cacheDir, verbose) }
\* return result
Resume(cfg, slug, params, fault, out) ==
  IF cfg.enableCache
  THEN Saved(out, writeToCache(out.fs, generateCacheKey(slug, params), out.val,
                               cfg.cacheDir, cfg.verbose, fault))
  ELSE out

\* An override that goes on to its write when the awaited originalGet threw:
\* the variant C4 is sensitive to.
RECURSIVE UnwindThrough(_, _, _, _, _, _, _)
UnwindThrough(chain, level, depth, slug, params, fault, out) ==
  IF level > depth THEN out
  ELSE UnwindThrough(chain, level + 1, depth, slug, params, fault,
                     Resume(chain[level], slug, params, fault, out))

\* The part of get after `await`, for the overrides from `level` up to
\* `depth`: out is what the awaited originalGet gave (a value, or an error
\* thrown, which passes through) with the file system, logs and io so far.
RECURSIVE Unwind(_, _, _, _, _, _, _)
Unwind(chain, level, depth, slug, params, fault, out) ==
  IF level > depth \/ out.threw THEN out
  ELSE Unwind(chain, level + 1, depth, slug, params, fault,
              Resume(chain[level], slug, params, fault, out))

Outcome(files, threw, err, val, logs, io) ==
  [fs |-> files, threw |-> threw, err |-> err, val |-> val, logs |-> logs,
   io |-> io, fault |-> NoFault]

FreeCall ==
  CHOOSE c \in DOMAIN calls :
    calls[c].st = "idle" /\ \A d \in 1..(c - 1) : calls[d].st # "idle"

\* A get that completes with `out`, having invoked the network client with
\* `fetched` and got `net` from it.
GetReturn(o, slug, params, fetched, net, out) ==
  /\ fs' = out.fs
  /\ last' = Obs("get", [api |-> o, slug |-> slug, params |-> params],
                 out.val, out.threw, out.err, fetched, net, out.io, out.logs,
                 out.fault)

\* A get that invokes the network client and is suspended at `await`.
GetSuspend(o, slug, params, d) ==
  /\ \E c \in DOMAIN calls : calls[c].st = "idle"
  /\ calls' = [calls EXCEPT ![FreeCall] = Pending(o, Len(apis[o]), slug, params)]
  /\ last' = Obs("getStart", [api |-> o, slug |-> slug, params |-> params],
                 Undefined, FALSE, "", << <<slug, params>> >>, NoNet, d.io, d.logs,
                 NoFault)
  /\ UNCHANGED <<fs, nodeEnv, apis>>

GetDescended(o, slug, params, fault, d) ==
  IF d.hit
  THEN /\ GetReturn(o, slug, params, <<>>, NoNet,
                    Unwind(apis[o], d.level + 1, Len(apis[o]), slug, params, fault,
                           Outcome(fs, FALSE, "", d.val, d.logs, d.io)))
       /\ UNCHANGED <<nodeEnv, apis, calls>>
  ELSE GetSuspend(o, slug, params, d)

\* storyblokApi.get(slug, params) on the decorated object o, up to its first
\* suspension: either some override finds its entry and the call completes
\* (the overrides above it writing the value to their caches), or every
\* override misses, the network client is invoked and the call is suspended.
GetStart(o, slug, params, fault) ==
  /\ apis[o] # <<>>
  /\ GetDescended(o, slug, params, fault,
                  Descend(apis[o], Len(apis[o]), fs, slug, params))

\* The network client's promise settles and the suspended call runs to its end.
GetSettle(c, threw, err, val, fault) ==
  /\ calls[c].st = "pending"
  /\ GetReturn(calls[c].api, calls[c].slug, calls[c].params,
               << <<calls[c].slug, calls[c].params>> >>,
               [threw |-> threw, err |-> err, val |-> val],
               Unwind(apis[calls[c].api], 1, calls[c].depth, calls[c].slug,
                      calls[c].params, fault,
                      Outcome(fs, threw, err, val, <<>>, <<>>)))
  /\ calls' = [calls EXCEPT ![c] = Idle]
  /\ UNCHANGED <<nodeEnv, apis>>

\* The network client resolves with `response`.
FetchResolve(c, response, fault) == GetSettle(c, FALSE, "", response, fault)

\* The network client rejects with `err`.
FetchReject(c, err) == GetSettle(c, TRUE, err, Undefined, NoFault)

ReadDone(cacheKey, cacheDir, verbose, r) ==
  last' = Obs("readFromCache",
              [cacheKey |-> cacheKey, cacheDir |-> cacheDir, verbose |-> verbose],
              r.ret, FALSE, "", <<>>, NoNet, r.io, r.logs, NoFault)

\* A direct call readFromCache(cacheKey, cacheDir, verbose).
ReadFromCache(cacheKey, cacheDir, verbose) ==
  /\ ReadDone(cacheKey, cacheDir, verbose, readFromCache(fs, cacheKey, cacheDir, verbose))
  /\ UNCHANGED <<fs, nodeEnv, apis, calls>>

WriteDone(cacheKey, data, cacheDir, verbose, w) ==
  /\ fs' = w.fs
  /\ last' = Obs("writeToCache",
                 [cacheKey |-> cacheKey, data |-> data, cacheDir |-> cacheDir,
                  verbose |-> verbose, wrote |-> w.wrote],
                 Undefined, w.threw, w.err, <<>>, NoNet, w.io, w.logs, w.fault)

\* A direct call writeToCache(cacheKey, data, cacheDir, verbose).
WriteToCache(cacheKey, data, cacheDir, verbose, fault) ==
  /\ WriteDone(cacheKey, data, cacheDir, verbose,
               writeToCache(fs, cacheKey, data, cacheDir, verbose, fault))
  /\ UNCHANGED <<nodeEnv, apis, calls>>

ClearDone(cacheDir, r) ==
  /\ fs' = r.fs
  /\ last' = Obs("clearCache", [cacheDir |-> cacheDir],
                 IF r.threw THEN Undefined ELSE Num(r.ret), r.threw, r.err,
                 <<>>, NoNet, r.io, <<>>, NoFault)

\* A direct call clearCache(cacheDir).
ClearCache(cacheDir) ==
  /\ \E done \in UnlinkedFirst(fs, cacheDir) :
       ClearDone(cacheDir, clearCache(fs, cacheDir, done))
  /\ UNCHANGED <<nodeEnv, apis, calls>>

\* Something other than this module (a test's writeFileSync, an editor, an
\* interrupted process) leaves a file with `text` under `name` in `dir`.
ForeignWrite(dir, name, text) ==
  /\ fs' = PutEntry(MakeDir(fs, dir), dir, name, File(text))
  /\ last' = Obs("foreign", [dir |-> dir, name |-> name],
                 Undefined, FALSE, "", <<>>, NoNet, <<>>, <<>>, NoFault)
  /\ UNCHANGED <<nodeEnv, apis, calls>>

\* Something other than this module makes a subdirectory `name` in `dir`.
ForeignMkdir(dir, name) ==
  /\ fs' = PutEntry(MakeDir(fs, dir), dir, name, SubDir)
  /\ last' = Obs("foreignMkdir", [dir |-> dir, name |-> name],
                 Undefined, FALSE, "", <<>>, NoNet, <<>>, <<>>, NoFault)
  /\ UNCHANGED <<nodeEnv, apis, calls>>

(***************************************************************************)
(* Inputs.                                                                 *)
(***************************************************************************)
Home == <<"h">>
About == <<"a">>

Draft == Obj(<< <<"version", Str("draft")>> >>)
FilterOne == Obj(<< <<"f", Obj(<< <<"x", Num(1)>> >>)>> >>)
FilterTwo == Obj(<< <<"f", Obj(<< <<"x", Num(2)>> >>)>> >>)

StoryHome == Obj(<< <<"data", Obj(<< <<"story", Obj(<< <<"name", Str("Home")>> >>)>> >>)>> >>)
StoryAbout == Obj(<< <<"data", Obj(<< <<"story", Obj(<< <<"name", Str("About")>> >>)>> >>)>> >>)

Option(enableCache, cacheDir, verbose) ==
  [enableCache |-> enableCache, cacheDir |-> cacheDir, verbose |-> verbose]

Slugs == {Home, About}
ParamSets == {Undefined}
Responses == {StoryHome, StoryAbout, Null}
FetchErrors == {"ECONNRESET", "404 Not Found"}
Options == {Option(e, Undefined, Bool(FALSE)) : e \in {Bool(TRUE), Bool(FALSE)}}

\* "{ invalid json", as in the tests.
CorruptTexts == {<<"{", "invalid", "json">>}
TextFile == <<"c", ".", "t", "x", "t">>

\* The factory hands out an object that has not been decorated yet.
Fresh(o) == apis[o] = <<>>

\* The application: clients decorated once each, gets on them, the network
\* client answering, the cache cleared, and files the module did not write
\* appearing in the cache directory.
Next ==
  \/ \E o \in ApiObjects, options \in Options :
       Fresh(o) /\ useCachedStoryblokApi(o, options)
  \/ \E o \in ApiObjects, slug \in Slugs, params \in ParamSets :
       GetStart(o, slug, params, NoFault)
  \/ \E c \in CallIds, response \in Responses : FetchResolve(c, response, NoFault)
  \/ \E c \in CallIds, err \in FetchErrors : FetchReject(c, err)
  \/ ClearCache(CACHE_DIR)
  \/ \E slug \in Slugs, params \in ParamSets, text \in CorruptTexts :
       ForeignWrite(CACHE_DIR, generateCacheKey(slug, params), text)
  \/ ForeignWrite(CACHE_DIR, TextFile, <<"text">>)

Spec == Init /\ [][Next]_vars

(***************************************************************************)
(* A network client that is a function of the request: it answers with     *)
(* the slug and the params it was asked for.                               *)
(***************************************************************************)
Origin(slug, params) ==
  Obj(<< <<"story", Str(IF slug = Home THEN "Home" ELSE "About")>>,
         <<"value", IF params.t = "undef" THEN Null ELSE params>> >>)

FetchOrigin(c) ==
  /\ calls[c].st = "pending"
  /\ FetchResolve(c, Origin(calls[c].slug, calls[c].params), NoFault)

NestedParamSets == {Undefined, FilterOne, FilterTwo}

NextDet ==
  \/ \E o \in ApiObjects, options \in Options :
       Fresh(o) /\ useCachedStoryblokApi(o, options)
  \/ \E o \in ApiObjects, slug \in Slugs, params \in NestedParamSets :
       GetStart(o, slug, params, NoFault)
  \/ \E c \in CallIds : FetchOrigin(c)

SpecDet == Init /\ [][NextDet]_vars

(***************************************************************************)
(* A file system that can refuse: mkdirSync or writeFileSync may throw.    *)
(***************************************************************************)
Faults == {NoFault, MkdirFault, WriteFault}

StoreKeys == {<<"a", ".", "j", "s", "o", "n">>, <<"b", ".", "j", "s", "o", "n">>}

NextFault ==
  \/ \E options \in Options : Fresh("api1") /\ useCachedStoryblokApi("api1", options)
  \/ \E slug \in Slugs : GetStart("api1", slug, Undefined, NoFault)
  \/ \E c \in CallIds, response \in Responses, fault \in Faults :
       FetchResolve(c, response, fault)
  \/ \E cacheKey \in StoreKeys, data \in {StoryHome}, fault \in Faults :
       WriteToCache(cacheKey, data, "my-cache", FALSE, fault)

SpecFault == Init /\ [][NextFault]_vars

(***************************************************************************)
(* The store on its own: direct calls of writeToCache, readFromCache and   *)
(* clearCache on a custom directory.                                       *)
(***************************************************************************)
Payloads ==
  {Null, Obj(<<>>), Num(0), Str("New"),
   Arr(<<Num(1), Null, Str("Old"), Arr(<<>>)>>),
   Obj(<< <<"data", Arr(<<Obj(<<>>), Obj(<< <<"x", Bool(TRUE)>> >>)>>)>>,
          <<"name", Str("Home")>>, <<"value", Null>> >>)}

NextStore ==
  \/ \E cacheKey \in StoreKeys, data \in Payloads \cup {Undefined},
        verbose \in BOOLEAN, fault \in {NoFault, WriteFault} :
       WriteToCache(cacheKey, data, "my-cache", verbose, fault)
  \/ \E cacheKey \in StoreKeys, verbose \in BOOLEAN :
       ReadFromCache(cacheKey, "my-cache", verbose)
  \/ ClearCache("my-cache")
  \/ \E cacheKey \in StoreKeys, text \in CorruptTexts :
       ForeignWrite("my-cache", cacheKey, text)
  \/ ForeignWrite("my-cache", TextFile, <<"text">>)

SpecStore == Init /\ [][NextStore]_vars

(***************************************************************************)
(* Properties.                                                             *)
(***************************************************************************)
\* Every override on the object o caches / none does.
EnabledApi(o) ==
  apis[o] # <<>> /\ \A i \in 1..Len(apis[o]) : apis[o][i].enableCache

DisabledApi(o) ==
  apis[o] # <<>> /\ \A i \in 1..Len(apis[o]) : ~apis[o][i].enableCache

\* The directory and file of the identity (slug, params) for the object o.
DirOf(o) == apis[o][Len(apis[o])].cacheDir

\* The file of the identity exists in `files` and its text parses.
Persisted(files, dir, slug, params) ==
  /\ FileExists(files, dir, generateCacheKey(slug, params))
  /\ JSONparse(files.files[dir][generateCacheKey(slug, params)].text).ok

\* The file of the identity exists in `files` and its text does not parse.
Corrupted(files, dir, slug, params) ==
  /\ FileExists(files, dir, generateCacheKey(slug, params))
  /\ ~JSONparse(files.files[dir][generateCacheKey(slug, params)].text).ok

PersistedValue(files, dir, slug, params) ==
  JSONparse(files.files[dir][generateCacheKey(slug, params)].text).val

\* A get on o for (slug, params) would be answered from disk.
IsHit(files, o, slug, params) ==
  Descend(apis[o], Len(apis[o]), files, slug, params).hit

\* The names directly inside dir that end in .json.
JsonNames(files, dir) == {n \in ReadDir(files, dir) : EndsWith(n, JsonSuffix)}

\* C1: with caching enabled, once the result of a get is persisted for an
\* identity, a get with that identity returns the persisted result and does
\* not invoke the network client, whatever JSON value was persisted; and a get
\* that went to the network invoked it once and leaves its result persisted.
C1Step ==
  /\ \A o \in ApiObjects, slug \in Slugs, params \in ParamSets :
       (/\ EnabledApi(o)
        /\ Persisted(fs, DirOf(o), slug, params)
        /\ GetStart(o, slug, params, NoFault))
       => /\ last'.op = "get"
          /\ last'.fetched = <<>>
          /\ last'.ret = PersistedValue(fs, DirOf(o), slug, params)
  /\ \A c \in CallIds, response \in Responses :
       (/\ calls[c].st = "pending"
        /\ EnabledApi(calls[c].api)
        /\ FetchResolve(c, response, NoFault))
       => /\ Len(last'.fetched) = 1
          /\ last'.ret = response
          /\ Persisted(fs', DirOf(calls[c].api), calls[c].slug, calls[c].params)
          /\ PersistedValue(fs', DirOf(calls[c].api), calls[c].slug, calls[c].params)
               = response

C1_PersistedThenServedFromDisk == [][C1Step]_vars

\* C2: when the network client is a function of (slug, params), every get
\* that returns, on any decorated client and from an empty cache directory,
\* returns what the network client answers for its own arguments.
C2_TransparentToCaller ==
  (last.op = "get" /\ ~last.threw)
    => last.ret = Origin(last.args.slug, last.args.params)

\* C3: with caching disabled a get invokes the network client exactly once,
\* with the slug and params it was given, returns what the client gives (its
\* value or its error), and makes no call to the file system, which it leaves
\* as it was, also when an entry for the identity exists.
C3_DisabledPassThrough ==
  (last.op \in {"get", "getStart"} /\ DisabledApi(last.args.api))
    => /\ last.fetched = << <<last.args.slug, last.args.params>> >>
       /\ last.io = <<>>
       /\ fs = last.before
       /\ last.op = "get" => /\ last.threw = last.net.threw
                             /\ last.err = last.net.err
                             /\ last.ret = last.net.val

C3_Witness ==
  /\ last.op = "get"
  /\ DisabledApi(last.args.api)
  /\ ~last.threw
  /\ Persisted(fs, CACHE_DIR, last.args.slug, last.args.params)
  /\ PersistedValue(fs, CACHE_DIR, last.args.slug, last.args.params) # last.ret
  /\ last.ret = StoryAbout

\* C4: when the network client rejects, the get throws the same error, has
\* invoked the client once, makes no call to the file system after the
\* rejection and leaves the file system as it was, so that the identity is
\* answered from disk after the call exactly if it was before.
C4_FetchFailurePropagates ==
  (last.op = "get" /\ last.net.threw)
    => /\ last.threw
       /\ last.err = last.net.err
       /\ last.ret = Undefined
       /\ Len(last.fetched) = 1
       /\ last.io = <<>>
       /\ fs = last.before
       /\ IsHit(fs, last.args.api, last.args.slug, last.args.params)
            = IsHit(last.before, last.args.api, last.args.slug, last.args.params)

C4_Witness ==
  /\ last.op = "get"
  /\ last.net.threw
  /\ last.err = "ECONNRESET"
  /\ EnabledApi(last.args.api)
  /\ Corrupted(fs, CACHE_DIR, last.args.slug, last.args.params)
  /\ ~IsHit(fs, last.args.api, last.args.slug, last.args.params)

\* C5: writeToCache never throws, whichever file-system call fails, and a get
\* whose network client resolved returns the value it resolved with.
C5_WriteFailureNeverSurfaces ==
  /\ last.op = "writeToCache" => ~last.threw
  /\ (last.op = "get" /\ last.fetched # <<>> /\ ~last.net.threw)
       => ~last.threw /\ last.ret = last.net.val

\* C6: an entry whose text does not parse is a miss and not a fault:
\* readFromCache gives null; an enabled get for the identity invokes the
\* network client, and when that resolves (here: as the next step after the
\* get found the entry corrupted) the get returns the response and has
\* replaced the entry, so that the next get for the identity is a hit.
C6Step ==
  /\ \A o \in ApiObjects, slug \in Slugs, params \in ParamSets :
       (/\ EnabledApi(o)
        /\ Corrupted(fs, DirOf(o), slug, params)
        /\ GetStart(o, slug, params, NoFault))
       => /\ readFromCache(fs, generateCacheKey(slug, params), DirOf(o), FALSE).ret = Null
          /\ last'.op = "getStart"
          /\ last'.fetched = << <<slug, params>> >>
  /\ \A c \in CallIds, response \in Responses :
       (/\ calls[c].st = "pending"
        /\ EnabledApi(calls[c].api)
        /\ last.op = "getStart"
        /\ last.args = [api |-> calls[c].api, slug |-> calls[c].slug,
                        params |-> calls[c].params]
        /\ Corrupted(fs, DirOf(calls[c].api), calls[c].slug, calls[c].params)
        /\ FetchResolve(c, response, NoFault))
       => /\ ~last'.threw
          /\ last'.ret = response
          /\ Persisted(fs', DirOf(calls[c].api), calls[c].slug, calls[c].params)
          /\ IsHit(fs', calls[c].api, calls[c].slug, calls[c].params)

C6_CorruptEntryIsMissThenHit == [][C6Step]_vars

\* C7: clearCache returns the number of names ending in .json that were in
\* the directory, which is the number of files it removed.
C7_CountsJsonEntries ==
  last.op = "clearCache"
    => /\ last.ret = Num(Cardinality(JsonNames(last.before, last.args.cacheDir)))
       /\ last.ret = Num(Cardinality(ReadDir(last.before, last.args.cacheDir))
                         - Cardinality(ReadDir(fs, last.args.cacheDir)))

\* C8: clearCache removes the names ending in .json directly inside its
\* directory and nothing else: every other file keeps its content, no
\* directory appears or disappears, and no enabled get on that directory is
\* answered from disk afterwards.  On a directory that does not exist it
\* returns 0, throws nothing and leaves the file system as it was.
C8_RemovesExactlyJson ==
  last.op = "clearCache"
    => /\ ~last.threw
       /\ fs.dirs = last.before.dirs
       /\ \A d \in DirNames \ {last.args.cacheDir} : fs.files[d] = last.before.files[d]
       /\ ReadDir(fs, last.args.cacheDir)
            = ReadDir(last.before, last.args.cacheDir)
                \ JsonNames(last.before, last.args.cacheDir)
       /\ \A n \in ReadDir(fs, last.args.cacheDir) :
            fs.files[last.args.cacheDir][n] = last.before.files[last.args.cacheDir][n]
       /\ JsonNames(fs, last.args.cacheDir) = {}
       /\ \A o \in ApiObjects, slug \in Slugs, params \in ParamSets :
            (EnabledApi(o) /\ DirOf(o) = last.args.cacheDir)
              => ~IsHit(fs, o, slug, params)
       /\ ~DirExists(last.before, last.args.cacheDir)
            => (last.ret = Num(0) /\ fs = last.before)

C8_Witness ==
  /\ last.op = "clearCache"
  /\ \E o \in ApiObjects, slug \in Slugs :
       /\ EnabledApi(o)
       /\ DirOf(o) = last.args.cacheDir
       /\ IsHit(last.before, o, slug, Undefined)
  /\ FileExists(fs, last.args.cacheDir, TextFile)
  /\ Cardinality(JsonNames(last.before, last.args.cacheDir)) = 2

\* C9: after a write that succeeded, readFromCache with the same key and
\* directory returns a value equal to the payload written.
C9_RoundTrip ==
  (last.op = "writeToCache" /\ last.args.wrote)
    => readFromCache(fs, last.args.cacheKey, last.args.cacheDir, FALSE).ret
         = last.args.data

C9_Witness ==
  /\ last.op = "writeToCache"
  /\ last.args.wrote
  /\ last.args.data.t = "obj"
  /\ HasOwn(last.args.data, "data")
  /\ GetProp(last.args.data, "data").t = "arr"
  /\ readFromCache(fs, last.args.cacheKey, last.args.cacheDir, FALSE).ret
       = last.args.data

\* C10: a write that succeeds makes its payload what readFromCache gives for
\* its key, over whatever was there; a write that fails leaves what
\* readFromCache gives for the key as it was; and either way every other
\* entry of the directory, and every other directory, is unchanged.
C10_LastWriterWins ==
  last.op = "writeToCache"
    => /\ ReadDir(fs, last.args.cacheDir) \ {last.args.cacheKey}
            = ReadDir(last.before, last.args.cacheDir) \ {last.args.cacheKey}
       /\ \A n \in ReadDir(fs, last.args.cacheDir) \ {last.args.cacheKey} :
            fs.files[last.args.cacheDir][n] = last.before.files[last.args.cacheDir][n]
       /\ \A d \in DirNames \ {last.args.cacheDir} :
            fs.files[d] = last.before.files[d] /\ (d \in fs.dirs <=> d \in last.before.dirs)
       /\ readFromCache(fs, last.args.cacheKey, last.args.cacheDir, FALSE).ret
            = IF last.args.wrote THEN last.args.data
              ELSE readFromCache(last.before, last.args.cacheKey, last.args.cacheDir,
                                 FALSE).ret

C10_Witness ==
  /\ last.op = "writeToCache"
  /\ last.args.wrote
  /\ last.args.data = Str("New")
  /\ readFromCache(last.before, last.args.cacheKey, last.args.cacheDir, FALSE).ret
       = Obj(<<>>)
  /\ \E n \in StoreKeys \ {last.args.cacheKey} :
       readFromCache(fs, n, last.args.cacheDir, FALSE).ret = Num(0)
  /\ FileExists(fs, last.args.cacheDir, TextFile)

(***************************************************************************)
(* The key derivation on its own: generateCacheKey called directly on       *)
(* paths with separators and reserved characters and on parameter           *)
(* mappings, next to an enabled client whose network client answers with    *)
(* the arguments it was given.                                             *)
(***************************************************************************)
KeyOf(key) == [t |-> "key", v |-> key]

\* A direct call generateCacheKey(path, params).
GenerateCacheKey(path, params) ==
  /\ last' = Obs("generateCacheKey", [path |-> path, params |-> params],
                 KeyOf(generateCacheKey(path, params)), FALSE, "", <<>>, NoNet,
                 <<>>, <<>>, NoFault)
  /\ UNCHANGED <<fs, nodeEnv, apis, calls>>

KeyPaths ==
  {<<>>, <<"/">>, <<"a">>, <<"h">>, <<"/", "a">>, <<"/", "/", "a">>,
   <<"a", "/", "b">>, <<"/", "a", "/", "b">>, <<"a", "?", "b">>,
   <<"a", ".", "b">>, <<"a", "-", "b">>, <<"a", "_", "b">>}

DraftCv == Obj(<< <<"version", Str("draft")>>, <<"cv", Num(1)>> >>)
CvDraft == Obj(<< <<"cv", Num(1)>>, <<"version", Str("draft")>> >>)
FilterOneDraft ==
  Obj(<< <<"f", Obj(<< <<"x", Num(1)>> >>)>>, <<"version", Str("draft")>> >>)
DraftFilterOne ==
  Obj(<< <<"version", Str("draft")>>, <<"f", Obj(<< <<"x", Num(1)>> >>)>> >>)
NoParams == Obj(<<>>)

KeyParams ==
  {Undefined, NoParams, Draft, DraftCv, CvDraft, FilterOne, FilterTwo,
   FilterOneDraft, DraftFilterOne}

GetPaths == {<<"a", "/", "b">>, <<"/", "a", "/", "b">>}
GetParams == {DraftCv, CvDraft}

\* A network client that answers differently for a slug written with a
\* leading separator, and echoes the params in the order it was given them.
OriginBySlug(slug, params) ==
  Obj(<< <<"story", Str(IF Len(slug) > 0 /\ slug[1] = "/" THEN "New" ELSE "Old")>>,
         <<"value", IF params.t = "undef" THEN Null ELSE params>> >>)

FetchBySlug(c) ==
  /\ calls[c].st = "pending"
  /\ FetchResolve(c, OriginBySlug(calls[c].slug, calls[c].params), NoFault)

NextKey ==
  \/ \E path \in KeyPaths, params \in KeyParams : GenerateCacheKey(path, params)
  \/ Fresh("api1")
       /\ useCachedStoryblokApi("api1", Option(Bool(TRUE), Undefined, Bool(FALSE)))
  \/ \E slug \in GetPaths, params \in GetParams : GetStart("api1", slug, params, NoFault)
  \/ \E c \in CallIds : FetchBySlug(c)

SpecKey == Init /\ [][NextKey]_vars

\* Two parameter mappings holding the same name/value pairs.
SameMapping(m1, m2) ==
  /\ m1.t = "obj" /\ m2.t = "obj"
  /\ Len(m1.v) = Len(m2.v)
  /\ \A i \in 1..Len(m1.v) : HasOwn(m2, m1.v[i][1]) /\ GetProp(m2, m1.v[i][1]) = m1.v[i][2]

\* C11: generateCacheKey is a function of its arguments, and parameter
\* mappings holding the same name/value pairs in a different insertion order
\* give the same key for every path; once an enabled get has stored its
\* response, a get with the reordered mapping is answered from disk.
C11_KeyIgnoresInsertionOrder ==
  /\ last.op = "generateCacheKey"
       => /\ last.ret = KeyOf(generateCacheKey(last.args.path, last.args.params))
          /\ \A m2 \in KeyParams :
               SameMapping(last.args.params, m2)
                 => generateCacheKey(last.args.path, m2) = last.ret.v
  /\ (last.op = "get" /\ ~last.threw)
       => \A m2 \in GetParams :
            SameMapping(last.args.params, m2)
              => /\ IsHit(fs, last.args.api, last.args.slug, m2)
                 /\ PersistedValue(fs, CACHE_DIR, last.args.slug, m2) = last.ret

\* A get with cv before version answered with what the get with version
\* before cv stored.
C11_Witness ==
  /\ last.op = "get"
  /\ last.fetched = <<>>
  /\ last.args.params = CvDraft
  /\ last.ret = OriginBySlug(last.args.slug, DraftCv)
  /\ generateCacheKey(last.args.slug, CvDraft) = generateCacheKey(last.args.slug, DraftCv)

\* Missing params and an empty mapping are the same mapping.
AsMapping(m) == IF m.t = "undef" THEN NoParams ELSE m

\* Two request identities that differ after normalization.
DifferentIdentity(p1, m1, p2, m2) ==
  \/ NormalizePath(p1) # NormalizePath(p2)
  \/ ~SameMapping(AsMapping(m1), AsMapping(m2))

\* C12: two request identities that differ after normalization, in the path
\* or anywhere in the parameter mapping, nested values included, give
\* different strings to the digest and different keys.
C12_KeySensitive ==
  last.op = "generateCacheKey"
    => \A p2 \in KeyPaths, m2 \in KeyParams :
         DifferentIdentity(last.args.path, last.args.params, p2, m2)
           => /\ Combined(NormalizePath(last.args.path), ParamsStr(last.args.params))
                   # Combined(NormalizePath(p2), ParamsStr(m2))
              /\ last.ret.v # generateCacheKey(p2, m2)

\* C13: for every path, missing params give the key that an empty parameter
\* mapping gives.
C13_MissingParamsAsEmpty ==
  (last.op = "generateCacheKey" /\ last.args.params = Undefined)
    => last.ret.v = generateCacheKey(last.args.path, NoParams)

\* C14: a path and the same path with one separator put before it give the
\* same key, with two separators a different one; once an enabled get has
\* stored its response, a get whose slug differs in one leading separator
\* is answered from disk with that response.
C14_OneLeadingSeparatorStripped ==
  /\ (last.op = "generateCacheKey"
        /\ (last.args.path = <<>> \/ last.args.path[1] # "/"))
       => /\ generateCacheKey(<<"/">> \o last.args.path, last.args.params) = last.ret.v
          /\ generateCacheKey(<<"/", "/">> \o last.args.path, last.args.params)
               # last.ret.v
          /\ Combined(NormalizePath(<<"/", "/">> \o last.args.path),
                      ParamsStr(last.args.params))
               # Combined(NormalizePath(last.args.path), ParamsStr(last.args.params))
  /\ (last.op = "get" /\ ~last.threw)
       => \A slug \in GetPaths :
            NormalizePath(slug) = NormalizePath(last.args.slug)
              => /\ IsHit(fs, last.args.api, slug, last.args.params)
                 /\ PersistedValue(fs, CACHE_DIR, slug, last.args.params) = last.ret

\* A get of "/a/b" answered with what the get of "a/b" stored.
C14_Witness ==
  /\ last.op = "get"
  /\ last.fetched = <<>>
  /\ last.args.slug = <<"/", "a", "/", "b">>
  /\ last.ret = OriginBySlug(<<"a", "/", "b">>, last.args.params)
  /\ last.ret # OriginBySlug(last.args.slug, last.args.params)

LowerHex == {HexDigits[i] : i \in 1..Len(HexDigits)}

\* key is prefix, "__", HashLength lowercase hex digits, ".json", the prefix
\* being n characters of [a-zA-Z0-9_-].
WellFormedKey(key, n) ==
  /\ Len(key) = n + 2 + HashLength + Len(JsonSuffix)
  /\ \A i \in 1..n : key[i] \in SafeChars
  /\ key[n + 1] = "_" /\ key[n + 2] = "_"
  /\ \A i \in (n + 3)..(n + 2 + HashLength) : key[i] \in LowerHex
  /\ SubSeq(key, n + 3 + HashLength, Len(key)) = JsonSuffix
  /\ \A i \in 1..Len(key) : key[i] # "/"

\* C15: every key is the sanitized path, "__", 16 lowercase hex digits and
\* ".json"; the sanitized path has only characters of [a-zA-Z0-9_-], so the
\* key holds no separator and names an entry directly inside the directory.
C15_KeyIsSafeFileName ==
  /\ last.op = "generateCacheKey"
       => WellFormedKey(last.ret.v, Len(NormalizePath(last.args.path)))
  /\ \A d \in DirNames : \A n \in ReadDir(fs, d) : \A i \in 1..Len(n) : n[i] # "/"

C15_Witness ==
  /\ last.op = "generateCacheKey"
  /\ last.args.path = <<"a", "?", "b">>
  /\ SubSeq(last.ret.v, 1, 5) = <<"a", "-", "b", "_", "_">>
  /\ Len(last.ret.v) = 26

\* Some entry of dir holds the answer of the network client for (slug, params).
\* The client of SpecDet answers each identity with a value of its own, so
\* after successful enabled gets from an empty directory this says that the
\* identity has been requested.
StoredAnswer(files, dir, slug, params) ==
  \E n \in ReadDir(files, dir) :
    /\ JSONparse(files.files[dir][n].text).ok
    /\ JSONparse(files.files[dir][n].text).val = Origin(slug, params)

Entries(files, dir) == Cardinality(ReadDir(files, dir))

\* C16: the directory holds one entry per distinct identity requested by
\* successful enabled gets from an empty directory.  Step by step: a get for an
\* identity requested before is answered from disk and adds nothing; a get
\* for an identity not requested before goes to the network, and its
\* completion adds exactly one entry.
C16Step ==
  /\ \A o \in ApiObjects, slug \in Slugs, params \in NestedParamSets :
       (EnabledApi(o) /\ GetStart(o, slug, params, NoFault))
         => IF StoredAnswer(fs, DirOf(o), slug, params)
            THEN last'.op = "get" /\ Entries(fs', DirOf(o)) = Entries(fs, DirOf(o))
            ELSE last'.op = "getStart"
  /\ \A c \in CallIds :
       (calls[c].st = "pending" /\ EnabledApi(calls[c].api) /\ FetchOrigin(c))
         => Entries(fs', DirOf(calls[c].api))
              = Entries(fs, DirOf(calls[c].api))
                  + IF StoredAnswer(fs, DirOf(calls[c].api), calls[c].slug, calls[c].params)
                    THEN 0 ELSE 1

C16_OneEntryPerIdentity == [][C16Step]_vars

\* C17: readFromCache on a key that has no file, in a directory that exists
\* or not, returns null, throws nothing, logs nothing, asks the file system
\* only whether the file exists, and leaves the file system as it was: no
\* directory and no file is created.
C17_ReadMissIsAbsent ==
  (last.op = "readFromCache"
     /\ ~FileExists(last.before, last.args.cacheDir, last.args.cacheKey))
    => /\ last.ret = Null
       /\ ~last.threw
       /\ last.logs = <<>>
       /\ last.io = <<"existsSync">>
       /\ fs = last.before
       /\ ~FileExists(fs, last.args.cacheDir, last.args.cacheKey)
       /\ DirExists(fs, last.args.cacheDir) = DirExists(last.before, last.args.cacheDir)

C17_Witness ==
  /\ last.op = "readFromCache"
  /\ last.ret = Null
  /\ DirExists(fs, last.args.cacheDir)
  /\ ~FileExists(fs, last.args.cacheDir, last.args.cacheKey)
  /\ \E n \in StoreKeys : FileExists(fs, last.args.cacheDir, n)

(***************************************************************************)
(* The runtime mode changing while clients exist: api1 is always decorated  *)
(* without an enableCache option, api2 always with one.                    *)
(***************************************************************************)
NodeEnvs == {"development", "production", "test"}

\* process.env["NODE_ENV"] = env
SetNodeEnv(env) ==
  /\ nodeEnv' = env
  /\ last' = Obs("setNodeEnv", [env |-> env], Undefined, FALSE, "", <<>>, NoNet,
                 <<>>, <<>>, NoFault)
  /\ UNCHANGED <<fs, apis, calls>>

DefaultOptions == {Option(Undefined, Undefined, Bool(FALSE))}
ExplicitOptions == {Option(Bool(e), Undefined, Bool(FALSE)) : e \in BOOLEAN}

NextEnv ==
  \/ \E env \in NodeEnvs : SetNodeEnv(env)
  \/ \E options \in DefaultOptions :
       Fresh("api1") /\ useCachedStoryblokApi("api1", options)
  \/ \E options \in ExplicitOptions :
       Fresh("api2") /\ useCachedStoryblokApi("api2", options)
  \/ \E o \in ApiObjects : GetStart(o, Home, Undefined, NoFault)
  \/ \E c \in CallIds : FetchResolve(c, StoryHome, NoFault)
  \/ \E c \in CallIds : FetchReject(c, "ECONNRESET")

SpecEnv == Init /\ [][NextEnv]_vars

\* C18: the flag a client is constructed with is the enableCache option when
\* one is given and otherwise NODE_ENV = "development" at that moment; it
\* does not change afterwards; and whether a get of the client asks the
\* cache, and whether it writes to it when the network client has resolved,
\* is that flag, whatever NODE_ENV is when get runs.
C18Step ==
  /\ \A o \in ApiObjects, options \in DefaultOptions \cup ExplicitOptions :
       useCachedStoryblokApi(o, options)
         => apis'[o][Len(apis'[o])].enableCache
              = IF options.enableCache = Undefined THEN nodeEnv = "development"
                ELSE options.enableCache.v
  /\ \A o \in ApiObjects : apis[o] # <<>> => apis'[o] = apis[o]
  /\ \A o \in ApiObjects :
       GetStart(o, Home, Undefined, NoFault)
         => /\ ("existsSync" \in {last'.io[i] : i \in 1..Len(last'.io)})
                 = apis[o][1].enableCache
            /\ last'.op = "get" => apis[o][1].enableCache
  /\ \A c \in CallIds :
       (calls[c].st = "pending" /\ FetchResolve(c, StoryHome, NoFault))
         => /\ ("writeFileSync" \in {last'.io[i] : i \in 1..Len(last'.io)})
                 = apis[calls[c].api][1].enableCache
            /\ (fs' # fs) => apis[calls[c].api][1].enableCache

C18_EnableFlagFixedAtConstruction == [][C18Step]_vars

\* The client decorated without the option, in development, still writes to
\* the cache when NODE_ENV has become production.
C18_Witness ==
  /\ last.op = "get"
  /\ last.args.api = "api1"
  /\ last.fetched # <<>>
  /\ last.io = <<"existsSync", "mkdirSync", "writeFileSync">>
  /\ nodeEnv = "production"
  /\ apis["api1"][1].enableCache

(***************************************************************************)
(* Clients and direct store calls with verbose given as true, as false or  *)
(* not at all, over entries that may be corrupted and writes that may fail. *)
(***************************************************************************)
VerboseOptions ==
  {Option(Bool(TRUE), Undefined, v) : v \in {Undefined, Bool(TRUE), Bool(FALSE)}}

NextLog ==
  \/ \E o \in ApiObjects, options \in VerboseOptions :
       Fresh(o) /\ useCachedStoryblokApi(o, options)
  \/ \E o \in ApiObjects : GetStart(o, Home, Undefined, NoFault)
  \/ \E c \in CallIds, response \in {StoryHome, Undefined},
        fault \in {NoFault, WriteFault} :
       FetchResolve(c, response, fault)
  \/ \E c \in CallIds : FetchReject(c, "ECONNRESET")
  \/ \E verbose \in BOOLEAN :
       ReadFromCache(generateCacheKey(Home, Undefined), CACHE_DIR, verbose)
  \/ \E verbose \in BOOLEAN, fault \in {NoFault, WriteFault} :
       WriteToCache(generateCacheKey(About, Undefined), StoryAbout, CACHE_DIR,
                    verbose, fault)
  \/ \E text \in CorruptTexts :
       ForeignWrite(CACHE_DIR, generateCacheKey(Home, Undefined), text)

SpecLog == Init /\ [][NextLog]_vars

\* Every override on the object o is silent.
QuietApi(o) ==
  apis[o] # <<>> /\ \A i \in 1..Len(apis[o]) : ~apis[o][i].verbose

\* C19: with verbose false nothing is logged: not by readFromCache, on a
\* corrupted entry or any other, not by writeToCache, succeeding or failing,
\* not by a get, on a hit, on a miss or when the network client rejects.  With
\* verbose true, readFromCache on a corrupted entry logs the read warning and
\* a write that succeeds logs the saved line.
C19_DiagnosticsGatedByVerbose ==
  /\ (last.op \in {"readFromCache", "writeToCache"} /\ ~last.args.verbose)
       => last.logs = <<>>
  /\ (last.op \in {"get", "getStart"} /\ QuietApi(last.args.api))
       => last.logs = <<>>
  /\ (last.op = "readFromCache" /\ last.args.verbose
        /\ FileExists(last.before, last.args.cacheDir, last.args.cacheKey)
        /\ ~JSONparse(last.before.files[last.args.cacheDir][last.args.cacheKey].text).ok)
       => last.logs = <<WarnRead>>
  /\ (last.op = "writeToCache" /\ last.args.verbose /\ last.args.wrote)
       => last.logs = <<LogSaved>>
  /\ (last.op = "get" /\ ~QuietApi(last.args.api) /\ last.fetched # <<>>
        /\ ~last.threw /\ last.fault = NoFault /\ last.ret # Undefined)
       => last.logs = <<LogSaved>>

\* A silent get whose write failed after it found the entry corrupted.
C19_Witness ==
  /\ last.op = "get"
  /\ QuietApi(last.args.api)
  /\ last.fault = WriteFault
  /\ last.logs = <<>>
  /\ Corrupted(fs, CACHE_DIR, last.args.slug, last.args.params)

(***************************************************************************)
(* Two gets in flight at once on an enabled client.                        *)
(***************************************************************************)
TwoCalls == {1, 2}

InitConc ==
  /\ fs = EmptyFs
  /\ nodeEnv = "production"
  /\ apis = [o \in ApiObjects |-> <<>>]
  /\ calls = [c \in TwoCalls |-> Idle]
  /\ last = [Obs("init", NoArgs, Undefined, FALSE, "", <<>>, NoNet, <<>>, <<>>, NoFault)
               EXCEPT !.before = EmptyFs]

NextConc ==
  \/ Fresh("api1")
       /\ useCachedStoryblokApi("api1", Option(Bool(TRUE), Undefined, Bool(FALSE)))
  \/ \E slug \in Slugs : GetStart("api1", slug, Undefined, NoFault)
  \/ \E c \in TwoCalls, response \in Responses : FetchResolve(c, response, NoFault)
  \/ \E c \in TwoCalls, err \in FetchErrors : FetchReject(c, err)

SpecConc == InitConc /\ [][NextConc]_vars

\* C20: every enabled get that went to the network invoked it once and
\* returns what its own invocation resolved with, and when it returns the
\* entry of its identity exists and its text is exactly that response
\* written out, whatever an earlier get for the identity had stored; a get
\* whose invocation rejected leaves the entry as it was.  So with two gets for
\* one identity in flight the entry holds, once both have completed, the
\* response of the one that completed last.
C20_LastCompletedFetchWins ==
  (last.op = "get" /\ last.fetched # <<>> /\ EnabledApi(last.args.api))
    => /\ Len(last.fetched) = 1
       /\ last.net.threw => (last.threw /\ fs = last.before)
       /\ ~last.net.threw
            => /\ last.ret = last.net.val
               /\ FileExists(fs, CACHE_DIR,
                             generateCacheKey(last.args.slug, last.args.params))
               /\ fs.files[CACHE_DIR][generateCacheKey(last.args.slug, last.args.params)]
                    = File(JSONstringify(last.net.val, NoReplacer, "  "))
               /\ PersistedValue(fs, CACHE_DIR, last.args.slug, last.args.params)
                    = last.net.val

\* Both gets for one identity missed and fetched; the first to complete
\* stored the Home story, the second has now replaced it with the About story.
C20_Witness ==
  /\ last.op = "get"
  /\ last.fetched # <<>>
  /\ \A c \in DOMAIN calls : calls[c].st = "idle"
  /\ Persisted(last.before, CACHE_DIR, last.args.slug, last.args.params)
  /\ PersistedValue(last.before, CACHE_DIR, last.args.slug, last.args.params) = StoryHome
  /\ last.ret = StoryAbout
  /\ PersistedValue(fs, CACHE_DIR, last.args.slug, last.args.params) = StoryAbout

\* Every entry of every directory of `before` is in `after`, and the
\* parseable ones with the text they had.
EntriesKept(before, after) ==
  \A d \in DirNames : \A n \in ReadDir(before, d) :
    /\ n \in ReadDir(after, d)
    /\ JSONparse(before.files[d][n].text).ok => after.files[d][n] = before.files[d][n]

\* C21: a get removes no entry and changes no parseable entry, at its start
\* or when the network client settles; while the entry of an identity is
\* there and parses, an enabled get for the identity is answered from it, with
\* the stored payload and the file system left as it was, whatever the
\* network client would answer now; and the first enabled get after clearCache
\* goes to the network and stores what it resolves with.
C21Step ==
  /\ \A o \in ApiObjects, slug \in Slugs, params \in ParamSets :
       GetStart(o, slug, params, NoFault)
         => /\ EntriesKept(fs, fs')
            /\ (EnabledApi(o) /\ Persisted(fs, DirOf(o), slug, params))
                 => /\ last'.op = "get"
                    /\ last'.ret = PersistedValue(fs, DirOf(o), slug, params)
                    /\ last'.fetched = <<>>
                    /\ fs' = fs
            /\ (EnabledApi(o) /\ last.op = "clearCache"
                  /\ last.args.cacheDir = DirOf(o))
                 => last'.op = "getStart"
  /\ \A c \in CallIds, response \in Responses :
       (calls[c].st = "pending" /\ FetchResolve(c, response, NoFault))
         => /\ EntriesKept(fs, fs')
            /\ EnabledApi(calls[c].api)
                 => /\ Persisted(fs', DirOf(calls[c].api), calls[c].slug, calls[c].params)
                    /\ PersistedValue(fs', DirOf(calls[c].api), calls[c].slug,
                                      calls[c].params) = response
  /\ \A c \in CallIds, err \in FetchErrors :
       (calls[c].st = "pending" /\ FetchReject(c, err)) => fs' = fs

C21_EntryStaysUntilEvicted == [][C21Step]_vars

(***************************************************************************)
(* A factory that hands out the object it handed out before, as            *)
(* useStoryblokApi() does with its one instance: useCachedStoryblokApi is  *)
(* called again on an object that already carries an override.             *)
(***************************************************************************)
MaxWraps == 2

CustomDir == "my-cache"

AliasOptions ==
  Options \cup {Option(Bool(TRUE), Str(CustomDir), Bool(FALSE))}

NextAlias ==
  \/ \E options \in AliasOptions :
       Len(apis["api1"]) < MaxWraps /\ useCachedStoryblokApi("api1", options)
  \/ \E slug \in Slugs : GetStart("api1", slug, Undefined, NoFault)
  \/ \E c \in CallIds, response \in {StoryHome, StoryAbout} :
       FetchResolve(c, response, NoFault)
  \/ \E c \in CallIds, err \in FetchErrors : FetchReject(c, err)

SpecAlias == Init /\ [][NextAlias]_vars

\* The configuration the client most recently constructed on o was given.
Constructed(o) == apis[o][Len(apis[o])]

\* The directories other than dir are as they were.
OthersKept(dir, before, after) ==
  \A d \in DirNames \ {dir} :
    /\ after.files[d] = before.files[d]
    /\ DirExists(after, d) <=> DirExists(before, d)

\* C22: a get on a client follows the options that client was constructed
\* with, also when the object it decorates was decorated before: constructed
\* with enableCache false, its get asks nothing of the file system, leaves it
\* as it was and invokes the network client; constructed with enableCache
\* true, its get touches no directory but its own.
C22Step ==
  /\ \A o \in ApiObjects, slug \in Slugs :
       (apis[o] # <<>> /\ GetStart(o, slug, Undefined, NoFault))
         => IF Constructed(o).enableCache
            THEN OthersKept(Constructed(o).cacheDir, fs, fs')
            ELSE /\ last'.op = "getStart"
                 /\ last'.fetched = << <<slug, Undefined>> >>
                 /\ last'.io = <<>>
                 /\ fs' = fs
  /\ \A c \in CallIds, response \in Responses :
       (calls[c].st = "pending" /\ FetchResolve(c, response, NoFault))
         => IF apis[calls[c].api][calls[c].depth].enableCache
            THEN OthersKept(apis[calls[c].api][calls[c].depth].cacheDir, fs, fs')
            ELSE /\ last'.io = <<>>
                 /\ last'.ret = response
                 /\ fs' = fs

C22_ConfigurationPerClient == [][C22Step]_vars

(***************************************************************************)
(* clearCache on a directory in which something made a subdirectory whose  *)
(* name ends in .json.                                                     *)
(***************************************************************************)
SubDirName == <<"d", ".", "j", "s", "o", "n">>

NextEvict ==
  \/ \E cacheKey \in StoreKeys, data \in {StoryHome, StoryAbout, Null} :
       WriteToCache(cacheKey, data, CustomDir, FALSE, NoFault)
  \/ \E name \in {SubDirName} \cup StoreKeys : ForeignMkdir(CustomDir, name)
  \/ \E cacheKey \in StoreKeys : ReadFromCache(cacheKey, CustomDir, FALSE)
  \/ ClearCache(CustomDir)

SpecEvict == Init /\ [][NextEvict]_vars

\* C23: when clearCache lists a name ending in .json that unlinkSync throws
\* on, it does not throw: it returns the number of names ending in .json that
\* it listed, and the files among them are unlinked.
C23_UnlinkFailureSwallowed ==
  (/\ last.op = "clearCache"
   /\ Undeletable(last.before, last.args.cacheDir,
                  JsonNames(last.before, last.args.cacheDir)) # {})
    => /\ ~last.threw
       /\ last.ret = Num(Cardinality(JsonNames(last.before, last.args.cacheDir)))
       /\ \A file \in JsonNames(last.before, last.args.cacheDir) :
            ~IsSubDir(last.before, last.args.cacheDir, file)
              => file \notin ReadDir(fs, last.args.cacheDir)

(***************************************************************************)
(* The module alone on the file system: nothing else makes directories or  *)
(* files.  Clients, gets on them, and direct calls of the store on either  *)
(* directory.                                                              *)
(***************************************************************************)
NextLazy ==
  \/ \E o \in ApiObjects, options \in Options :
       Fresh(o) /\ useCachedStoryblokApi(o, options)
  \/ \E o \in ApiObjects : GetStart(o, Home, Undefined, NoFault)
  \/ \E c \in CallIds, response \in {StoryHome, Null}, fault \in Faults :
       FetchResolve(c, response, fault)
  \/ \E c \in CallIds, err \in FetchErrors : FetchReject(c, err)
  \/ \E cacheKey \in StoreKeys, data \in {StoryHome, Undefined}, fault \in Faults :
       WriteToCache(cacheKey, data, CustomDir, FALSE, fault)
  \/ \E cacheKey \in StoreKeys, cacheDir \in DirNames :
       ReadFromCache(cacheKey, cacheDir, FALSE)
  \/ \E cacheDir \in DirNames : ClearCache(cacheDir)

SpecLazy == Init /\ [][NextLazy]_vars

\* The operation `last` records made the directory dir.
MadeDir(dir) == DirExists(fs, dir) /\ ~DirExists(last.before, dir)

\* The operation `last` records is a get of an enabled client on dir whose
\* network client resolved.
FetchedGet(dir) ==
  /\ last.op = "get"
  /\ EnabledApi(last.args.api)
  /\ DirOf(last.args.api) = dir
  /\ last.fetched # <<>>
  /\ ~last.net.threw

\* C24: a cache directory comes to exist only in a writeToCache on it, called
\* directly or by the get of an enabled client after its network client
\* resolved, and through mkdirSync; so never in readFromCache, clearCache, the
\* get of a disabled client, a get answered from disk or a get whose network
\* client rejected.  A writeToCache whose mkdirSync does not fail leaves the
\* directory existing, and one that finds the directory does not call
\* mkdirSync, does not throw and, given a value and a file system that lets
\* it, writes the file.
C24_DirectoryMadeOnlyByWrite ==
  /\ \A dir \in DirNames :
       MadeDir(dir)
         => /\ (last.op = "writeToCache" /\ last.args.cacheDir = dir) \/ FetchedGet(dir)
            /\ InSeq(last.io, "mkdirSync")
  /\ last.op = "writeToCache"
       => /\ last.fault # MkdirFault => DirExists(fs, last.args.cacheDir)
          /\ DirExists(last.before, last.args.cacheDir)
               => /\ ~last.threw
                  /\ ~InSeq(last.io, "mkdirSync")
                  /\ (last.fault = NoFault /\ last.args.data.t # "undef")
                       => /\ last.args.wrote
                          /\ FileExists(fs, last.args.cacheDir, last.args.cacheKey)
  /\ \A dir \in DirNames : FetchedGet(dir) /\ last.fault # MkdirFault => DirExists(fs, dir)

\* A get of an enabled client has made the default directory: before it the
\* directory did not exist, although gets had been started.
C24_Witness ==
  /\ FetchedGet(CACHE_DIR)
  /\ MadeDir(CACHE_DIR)
  /\ ~last.threw
  /\ FileExists(fs, CACHE_DIR, generateCacheKey(Home, Undefined))

(***************************************************************************)
(* Clients on different directories and clients sharing one.               *)
(***************************************************************************)
DirOptions ==
  {Option(Bool(TRUE), cacheDir, Bool(FALSE)) : cacheDir \in {Undefined, Str(CustomDir)}}

NextDirs ==
  \/ \E o \in ApiObjects, options \in DirOptions :
       Fresh(o) /\ useCachedStoryblokApi(o, options)
  \/ \E o \in ApiObjects, slug \in Slugs : GetStart(o, slug, Undefined, NoFault)
  \/ \E c \in CallIds, response \in Responses : FetchResolve(c, response, NoFault)
  \/ \E cacheDir \in DirNames : ClearCache(cacheDir)

SpecDirs == Init /\ [][NextDirs]_vars

\* C25: entries belong to the directory they were stored in.  A get of a
\* client on a directory is answered from disk exactly when its own directory
\* holds a truthy entry for the identity, with that entry's value, whatever
\* the other directory holds; it leaves the other directory as it was; what it
\* stores is then a hit for every client on the same directory and changes
\* nothing for a client on another one; and clearCache on a directory leaves
\* the other directory as it was.
C25_EntriesScopedToDirectory ==
  /\ last.op \in {"get", "getStart"}
       => /\ OthersKept(DirOf(last.args.api), last.before, fs)
          /\ (last.op = "get" /\ last.fetched = <<>>)
               => /\ Persisted(last.before, DirOf(last.args.api),
                               last.args.slug, last.args.params)
                  /\ last.ret = PersistedValue(last.before, DirOf(last.args.api),
                                               last.args.slug, last.args.params)
          /\ last.op = "getStart"
               => ~(/\ Persisted(last.before, DirOf(last.args.api),
                                 last.args.slug, last.args.params)
                    /\ Truthy(PersistedValue(last.before, DirOf(last.args.api),
                                             last.args.slug, last.args.params)))
          /\ (last.op = "get" /\ last.fetched # <<>>)
               => \A o \in ApiObjects \ {last.args.api} : apis[o] # <<>> =>
                    IF DirOf(o) = DirOf(last.args.api)
                    THEN /\ IsHit(fs, o, last.args.slug, last.args.params)
                         /\ Descend(apis[o], Len(apis[o]), fs, last.args.slug,
                                    last.args.params).val = last.ret
                    ELSE IsHit(fs, o, last.args.slug, last.args.params)
                           <=> IsHit(last.before, o, last.args.slug, last.args.params)
  /\ last.op = "clearCache" => OthersKept(last.args.cacheDir, last.before, fs)

====
